---- MODULE Spec2Model ----
(***************************************************************************)
(* Model of the Antigravity batch scheduler: BatchCoordinator              *)
(* (batch_coordinator.py), AntigravityScheduler (antigravity_scheduler.py) *)
(* and its configuration (scheduler_config.py).                            *)
(*                                                                         *)
(* Time is counted in minutes since a midnight (UTC).  Optional values are *)
(* sequences: <<>> is Python's None and <<v>> is the value v.              *)
(*                                                                         *)
(* The coroutines of one asyncio event loop interleave only at awaits.     *)
(* _should_execute, _determine_batch_size and _ask_agent_for_batch_size    *)
(* contain no await that suspends, so a cycle runs atomically from its     *)
(* first line to the first work-provider await of _execute_videos          *)
(* (line 343, the stand-in of agent.generate_video), and from one          *)
(* work-provider await to the next.  The work-provider call is external:   *)
(* it returns or raises, and that outcome is an input of the model.        *)
(***************************************************************************)
EXTENDS Integers, Sequences, FiniteSets, TLC

VARIABLES
    config,               \* AntigravitySchedulerConfig of the process
    now,                  \* datetime.utcnow(), in minutes
    ticks,                \* number of clock advances so far (bounded)
    current_batch,        \* BatchCoordinator.current_batch
    execution_history,    \* BatchCoordinator.execution_history
    last_execution,       \* BatchCoordinator.last_execution
    daily_video_count,    \* BatchCoordinator.daily_video_count
    hourly_video_count,   \* BatchCoordinator.hourly_video_count
    last_hour_reset,      \* BatchCoordinator.last_hour_reset
    last_day_reset,       \* BatchCoordinator.last_day_reset
    tasks,                \* the execute_batch coroutines of the event loop
    ncycles,              \* number of execute_batch invocations so far
    is_running,           \* AntigravityScheduler.is_running
    jobs,                 \* ids of the jobs added to the AsyncIOScheduler
    dropped,              \* a fire was refused because max_instances was reached
    exited,               \* sys.exit was called: the process is gone
    returned,             \* the coroutine that returned in the last step, if any
    probe                 \* a direct call of a pure method and its result

vars == <<config, now, ticks, current_batch, execution_history, last_execution,
          daily_video_count, hourly_video_count, last_hour_reset,
          last_day_reset, tasks, ncycles, is_running, jobs, dropped, exited,
          returned, probe>>

coordinator_vars == <<current_batch, execution_history, last_execution,
                      daily_video_count, hourly_video_count, last_hour_reset,
                      last_day_reset>>

scheduler_vars == <<is_running, jobs, dropped, exited>>

-----------------------------------------------------------------------------
(* Bounds of the model *)

MaxCycles == 2        \* execute_batch invocations in one behaviour
MaxTicks == 1         \* clock advances in one behaviour
MaxStops == 2         \* calls of stop() in one behaviour

-----------------------------------------------------------------------------
(* Program constants *)

OneHour == 60         \* timedelta(hours=1), in minutes
OneDay == 1440        \* timedelta(days=1), in minutes
MaxInstances == 1     \* max_instances of every job added
HistoryLimit == 100   \* entries of execution_history kept

None == <<>>
Some(v) == <<v>>

Min(a, b) == IF a < b THEN a ELSE b

\* datetime.time() and datetime.hour of a timestamp
TimeOfDay(t) == t % OneDay
HourOf(t) == TimeOfDay(t) \div 60

-----------------------------------------------------------------------------
(* Configuration: scheduler_config.py.  A configuration is one record of   *)
(* the batch.*, schedule.* and top-level fields the core reads.            *)

\* The default configuration (DEFAULT_CONFIG), with the default flags,
\* cooldown and quiet window, and with smaller limits than the defaults
\* (max_videos 5, default_batch_size 3, max_daily_videos 20,
\* max_hourly_videos 8, three cron anchors) so that the limits are reached
\* within the bounds.  Times of day are minutes after midnight.
BaseConfig ==
    [ min_videos           |-> 1,
      max_videos           |-> 2,
      default_batch_size   |-> 1,
      adaptive             |-> TRUE,
      max_daily_videos     |-> 3,
      max_hourly_videos    |-> 2,
      api_cooldown_minutes |-> 5,
      retry_on_failure     |-> TRUE,
      optimal_times        |-> <<540>>,
      quiet_hours_start    |-> 60,
      quiet_hours_end      |-> 360,
      agent_has_veto       |-> TRUE ]

\* The configurations explored: the base one, and one with the abort
\* policy, a default size of 0 (ANTIGRAVITY_BATCH_SIZE=0 is accepted: the
\* decision is then a veto outside peak hours), a daily limit equal to the
\* hourly one, a quiet window that is reached, and the interval trigger
\* instead of the cron anchors.
Configs ==
    { BaseConfig,
      [BaseConfig EXCEPT !.retry_on_failure = FALSE,
                         !.default_batch_size = 0,
                         !.max_daily_videos = 2,
                         !.quiet_hours_start = 590,
                         !.quiet_hours_end = 600,
                         !.optimal_times = <<>>] }

\* The constraints BatchConfig declares on its fields (lines 14-16): ge=1
\* on min_videos, le=10 on max_videos, none on default_batch_size and none
\* across fields.  Construction raises a ValidationError when one fails.
BatchConfigAccepts(cfg) == cfg.min_videos >= 1 /\ cfg.max_videos <= 10

\* load_config_from_env, for the value of ANTIGRAVITY_BATCH_SIZE (None:
\* not set): the value is assigned to the copy of the default
\* configuration as it is (line 107)
load_config_from_env(batch_size) ==
    IF batch_size = None
    THEN BaseConfig
    ELSE [BaseConfig EXCEPT !.default_batch_size = batch_size[1]]

\* Instants at which the process may be started
StartTimes == {535}

\* Amounts by which the clock advances between two steps
Steps == {60, 1440}

\* force_count as passed to execute_batch: absent, an integer, or a value
\* that is not a number (manual_trigger forwards **kwargs unchecked).
\* ForceCounts are the values manual_trigger is called with; the call
\* without force_count is the one run_once makes.
NoForce == [kind |-> "none", v |-> 0]
ForceInt(n) == [kind |-> "int", v |-> n]
ForceStr == [kind |-> "str", v |-> 0]
ForceCounts == {ForceStr} \cup {ForceInt(n) : n \in {-1, 0, 3}}

-----------------------------------------------------------------------------
(* BatchCoordinator: the methods that do not suspend, as operators        *)

\* The rate-limiting fields of the coordinator, as one value
Counters ==
    [ daily_video_count  |-> daily_video_count,
      hourly_video_count |-> hourly_video_count,
      last_hour_reset    |-> last_hour_reset,
      last_day_reset     |-> last_day_reset ]

\* _is_quiet_hours without the branch for a window that crosses midnight
_is_quiet_hours_no_wrap(t, cfg) ==
    cfg.quiet_hours_start <= t /\ t <= cfg.quiet_hours_end

\* _is_quiet_hours taking a window that starts where it ends as empty
_is_quiet_hours_empty_if_equal(t, cfg) ==
    LET start == cfg.quiet_hours_start
        end == cfg.quiet_hours_end
    IN  IF start < end
        THEN start <= t /\ t <= end
        ELSE IF start = end
        THEN FALSE
        ELSE t >= start \/ t <= end

\* _is_quiet_hours, for the time of day t
_is_quiet_hours(t, cfg) ==
    LET start == cfg.quiet_hours_start
        end == cfg.quiet_hours_end
    IN  IF start < end
        THEN start <= t /\ t <= end
        ELSE t >= start \/ t <= end

\* _reset_counters: the counters c as they are after the call at instant n
_reset_counters(c, n) ==
    LET h == IF n - c.last_hour_reset >= OneHour
             THEN [c EXCEPT !.hourly_video_count = 0, !.last_hour_reset = n]
             ELSE c
    IN  IF n - h.last_day_reset >= OneDay
        THEN [h EXCEPT !.daily_video_count = 0, !.last_day_reset = n]
        ELSE h

\* The checks of _should_execute with the hourly limit tested first
GateChecksHourlyFirst(c, last, n, cfg) ==
    IF c.hourly_video_count >= cfg.max_hourly_videos THEN "hourly limit"
    ELSE IF c.daily_video_count >= cfg.max_daily_videos THEN "daily limit"
    ELSE IF last # None /\ n - last[1] < cfg.api_cooldown_minutes THEN "cooldown"
    ELSE IF _is_quiet_hours(TimeOfDay(n), cfg) THEN "quiet hours"
    ELSE "proceed"

\* The checks of _should_execute (lines 158-180) on the counters c.  The
\* method returns False on the first check that fails and logs which one;
\* the value here is that check, or "proceed" for True.
GateChecks(c, last, n, cfg) ==
    IF c.daily_video_count >= cfg.max_daily_videos THEN "daily limit"
    ELSE IF c.hourly_video_count >= cfg.max_hourly_videos THEN "hourly limit"
    ELSE IF last # None /\ n - last[1] < cfg.api_cooldown_minutes THEN "cooldown"
    ELSE IF _is_quiet_hours(TimeOfDay(n), cfg) THEN "quiet hours"
    ELSE "proceed"

\* _should_execute with the limits compared before the counters are reset
_should_execute_before_reset(c, last, n, cfg) ==
    [counters |-> _reset_counters(c, n), reason |-> GateChecks(c, last, n, cfg)]

\* _should_execute at instant n: the counters it leaves and its outcome
_should_execute(c, last, n, cfg) ==
    LET c1 == _reset_counters(c, n)
    IN  [counters |-> c1, reason |-> GateChecks(c1, last, n, cfg)]

\* The stand-in decision of _ask_agent_for_batch_size (lines 293-298):
\* default size plus one at peak hours, capped by max_videos
PlaceholderSize(n, cfg) ==
    LET hour == HourOf(n)
        peak == (9 <= hour /\ hour <= 11) \/ (15 <= hour /\ hour <= 17)
    IN  IF peak
        THEN Min(cfg.default_batch_size + 1, cfg.max_videos)
        ELSE cfg.default_batch_size

\* _ask_agent_for_batch_size: the dict it returns.  The call of the
\* decision provider (line 289) is external: it returns (agent_ok) or
\* raises an Exception, which line 306 catches.
_ask_agent_for_batch_size(agent_ok, n, cfg) ==
    IF agent_ok
    THEN [batch_size |-> PlaceholderSize(n, cfg),
          reasoning  |-> "Peak time adjustment"]
    ELSE [batch_size |-> cfg.default_batch_size,
          reasoning  |-> "Fallback due to error"]

\* _determine_batch_size.  raised: min() of a non-number and an int raises
\* TypeError; asked: the decision provider was consulted; only the
\* batch_size of its decision is returned (line 230).
_determine_batch_size(force, agent_ok, n, cfg) ==
    IF force.kind = "str"
    THEN [raised |-> TRUE, size |-> 0, asked |-> FALSE]
    ELSE IF force.kind = "int"
    THEN [raised |-> FALSE, size |-> Min(force.v, cfg.max_videos),
          asked |-> FALSE]
    ELSE IF cfg.adaptive /\ cfg.agent_has_veto
    THEN [raised |-> FALSE,
          size |-> _ask_agent_for_batch_size(agent_ok, n, cfg).batch_size,
          asked |-> TRUE]
    ELSE [raised |-> FALSE, size |-> cfg.default_batch_size, asked |-> FALSE]

\* An except clause that catches nothing
ExceptNothing(exc) == FALSE

\* "except Exception" (batch_coordinator.py lines 145, 231, 306, 357 and
\* antigravity_scheduler.py line 157) catches exc: an Exception, but not a
\* CancelledError or a SystemExit, which derive from BaseException
ExceptException(exc) == exc = "Exception"

\* The list _execute_videos uses (line 323): "platforms or [...]" replaces
\* None and the empty list
DefaultPlatforms == <<"tiktok", "instagram">>
PlatformsOrDefault(platforms) ==
    IF platforms = None \/ platforms[1] = <<>>
    THEN DefaultPlatforms
    ELSE platforms[1]

\* A selection that stays on the last platform once the list is used up
SelectPlatformClamped(P, i) == P[Min(i, Len(P) - 1) + 1]

\* The platform of item i, 0-based (line 329); sequences are 1-based here
SelectPlatform(P, i) == P[(i % Len(P)) + 1]

\* The work-provider call issued for item i
Attempt(platforms, i) ==
    [index |-> i, platform |-> SelectPlatform(PlatformsOrDefault(platforms), i)]

\* A loop that never stops at a failure
AbortNever(ok, cfg) == FALSE

\* A loop that stops at every failure
AbortOnAnyFailure(ok, cfg) == ~ok

\* The loop of _execute_videos stops after an item (lines 357-370): the
\* item failed and retry_on_failure is off
AbortBatch(ok, cfg) == ~ok /\ ~cfg.retry_on_failure

\* Number of entries of the list rs whose status is st
RECURSIVE CountStatus(_, _)
CountStatus(rs, st) ==
    IF rs = <<>> THEN 0
    ELSE (IF Head(rs) = st THEN 1 ELSE 0) + CountStatus(Tail(rs), st)

\* The status chosen by _compile_batch_result (lines 387-394)
CompileStatus(requested, successful, failed) ==
    IF successful = requested THEN "completed"
    ELSE IF successful > 0 THEN "partial"
    ELSE IF failed > 0 THEN "failed"
    ELSE "skipped"

\* _compile_batch_result
_compile_batch_result(batch_id, requested, results) ==
    LET successful == CountStatus(results, "success")
        failed == CountStatus(results, "failed")
    IN  [ batch_id         |-> batch_id,
          status           |-> CompileStatus(requested, successful, failed),
          requested_count  |-> requested,
          successful_count |-> successful,
          failed_count     |-> failed,
          skipped_count    |-> requested - Len(results),
          videos           |-> results,
          agent_decision   |-> "" ]

\* _create_skipped_result reporting the cycle as failed
_create_skipped_result_as_failed(batch_id, reason) ==
    [ batch_id         |-> batch_id,
      status           |-> "failed",
      requested_count  |-> 0,
      successful_count |-> 0,
      failed_count     |-> 0,
      skipped_count    |-> 0,
      videos           |-> <<>>,
      agent_decision   |-> reason ]

\* _create_skipped_result
_create_skipped_result(batch_id, reason) ==
    [ batch_id         |-> batch_id,
      status           |-> "skipped",
      requested_count  |-> 0,
      successful_count |-> 0,
      failed_count     |-> 0,
      skipped_count    |-> 0,
      videos           |-> <<>>,
      agent_decision   |-> reason ]

\* _create_failed_result
_create_failed_result(batch_id, error) ==
    [ batch_id         |-> batch_id,
      status           |-> "failed",
      requested_count  |-> 0,
      successful_count |-> 0,
      failed_count     |-> 1,
      skipped_count    |-> 0,
      videos           |-> <<>>,
      agent_decision   |-> error ]

\* A trim that keeps the oldest entries
TrimHistoryKeepFirst(h) ==
    IF Len(h) > HistoryLimit
    THEN SubSeq(h, 1, HistoryLimit)
    ELSE h

\* The list kept by _update_metrics after appending r (lines 413-417)
TrimHistory(h) ==
    IF Len(h) > HistoryLimit
    THEN SubSeq(h, Len(h) - HistoryLimit + 1, Len(h))
    ELSE h


\* An update that stores the successes of r instead of adding them
_update_metrics_overwriting(c, h, r, n) ==
    [ daily_video_count  |-> r.successful_count,
      hourly_video_count |-> r.successful_count,
      last_execution     |-> Some(n),
      execution_history  |-> TrimHistory(Append(h, r)) ]

\* _update_metrics at instant n: the fields it assigns, from the counters c
\* and the history h, for the compiled result r
_update_metrics(c, h, r, n) ==
    [ daily_video_count  |-> c.daily_video_count + r.successful_count,
      hourly_video_count |-> c.hourly_video_count + r.successful_count,
      last_execution     |-> Some(n),
      execution_history  |-> TrimHistory(Append(h, r)) ]

\* The quotient a / b of Python, kept as the pair of its terms
Ratio(a, b) == [num |-> a, den |-> b]

\* The int 0
Zero == Ratio(0, 1)

\* h[-10:]
LastTen(h) == SubSeq(h, IF Len(h) > 10 THEN Len(h) - 9 ELSE 1, Len(h))

RECURSIVE SumRequested(_)
SumRequested(h) ==
    IF h = <<>> THEN 0 ELSE Head(h).requested_count + SumRequested(Tail(h))

RECURSIVE SumSuccessful(_)
SumSuccessful(h) ==
    IF h = <<>> THEN 0 ELSE Head(h).successful_count + SumSuccessful(Tail(h))

\* The success rate of a window whose requested counts do not sum to a
\* positive number (line 429): the int 0
RateOfNothing == Some(Zero)

\* _get_recent_performance on the history h.  The dict of an empty
\* history has the key success_rate only: the other keys are None here.
_get_recent_performance(h) ==
    IF h = <<>>
    THEN [success_rate |-> None, avg_batch_size |-> None,
          total_batches |-> None]
    ELSE LET recent == LastTen(h)
             total_requested == SumRequested(recent)
             total_successful == SumSuccessful(recent)
         IN  [ success_rate   |-> IF total_requested > 0
                                  THEN Some(Ratio(total_successful,
                                                  total_requested))
                                  ELSE RateOfNothing,
               avg_batch_size |-> Some(Ratio(total_requested, Len(recent))),
               total_batches  |-> Some(Len(recent)) ]

-----------------------------------------------------------------------------
(* The coroutines.  A task is one invocation of execute_batch; when it     *)
(* returns, its slot becomes idle and its last state, with the BatchResult *)
(* it returned, is the value of the variable returned for one step.        *)

\* One coroutine per invocation of execute_batch
TaskIds == 1..MaxCycles

NoJob == <<"", 0, 0>>
ManualId == <<"manual_trigger", 0, 0>>
RunOnceId == <<"run_once", 0, 0>>
IntervalId == <<"antigravity_interval", 0, 0>>
CronId(t) == <<"antigravity_cron", t \div 60, t % 60>>

IdleTask ==
    [ pc         |-> "idle",    \* idle, awaiting (the work provider), done,
                                \* raised (left by an exception), cancelled
      job        |-> NoJob,     \* the trigger or caller of the cycle
      batch_id   |-> None,
      platforms  |-> None,      \* platforms, as passed
      force      |-> NoForce,   \* force_count
      gate       |-> "",        \* outcome of _should_execute
      raised     |-> FALSE,     \* an exception reached line 145
      asked      |-> FALSE,     \* the decision provider was consulted
      agent_ok   |-> TRUE,      \* its call returned (FALSE: it raised)
      batch_size |-> 0,
      i          |-> 0,         \* loop index of _execute_videos
      results    |-> <<>>,      \* statuses of the VideoResults so far
      calls      |-> 0,         \* work-provider calls issued
      attempts   |-> <<>>,      \* item index and platform of each call
      ret        |-> None ]     \* the BatchResult returned

InProgress(t) == tasks[t].pc = "awaiting"

\* The coroutine of the next cycle
NewTask == ncycles + 1

\* A cycle that stays where it is instead of compiling and returning
NeverFinish(t, rec, c, results) ==
    /\ returned' = IdleTask
    /\ UNCHANGED <<daily_video_count, hourly_video_count, last_execution,
                   execution_history, current_batch, tasks>>

\* Lines 126-150 of execute_batch, reached with the list results:
\* compile, update the metrics, return, clear current_batch
Finish(t, rec, c, results) ==
    LET r == _compile_batch_result(rec.batch_id, rec.batch_size, results)
        m == _update_metrics(c, execution_history, r, now)
    IN  /\ daily_video_count' = m.daily_video_count
        /\ hourly_video_count' = m.hourly_video_count
        /\ last_execution' = m.last_execution
        /\ execution_history' = m.execution_history
        /\ current_batch' = None
        /\ tasks' = [tasks EXCEPT ![t] = IdleTask]
        /\ returned' = [rec EXCEPT !.pc = "done", !.results = results,
                                   !.ret = Some(r)]

\* An early return that records its result as an executed cycle does
ReturnEarlyRecorded(t, rec, c, r) ==
    /\ daily_video_count' = c.daily_video_count
    /\ hourly_video_count' = c.hourly_video_count
    /\ last_execution' = Some(now)
    /\ execution_history' = TrimHistory(Append(execution_history, r))
    /\ current_batch' = None
    /\ tasks' = [tasks EXCEPT ![t] = IdleTask]
    /\ returned' = [rec EXCEPT !.pc = "done", !.ret = Some(r)]

\* Lines 113, 119 and 147 of execute_batch: return the result r without
\* executing; the finally clause clears current_batch
ReturnEarly(t, rec, c, r) ==
    /\ daily_video_count' = c.daily_video_count
    /\ hourly_video_count' = c.hourly_video_count
    /\ current_batch' = None
    /\ tasks' = [tasks EXCEPT ![t] = IdleTask]
    /\ returned' = [rec EXCEPT !.pc = "done", !.ret = Some(r)]
    /\ UNCHANGED <<last_execution, execution_history>>

\* An exception that no handler caught leaves execute_batch and its caller:
\* the finally clause (line 150) clears current_batch, nothing is returned
Propagate(t, rec, c) ==
    /\ daily_video_count' = c.daily_video_count
    /\ hourly_video_count' = c.hourly_video_count
    /\ current_batch' = None
    /\ tasks' = [tasks EXCEPT ![t] = IdleTask]
    /\ returned' = [rec EXCEPT !.pc = "raised", !.raised = TRUE]
    /\ UNCHANGED <<last_execution, execution_history>>

\* A first step that lets a forced count through without the checks
GateStepUnlessForced(force) ==
    IF force = NoForce
    THEN _should_execute(Counters, last_execution, now, config)
    ELSE [counters |-> _reset_counters(Counters, now), reason |-> "proceed"]

\* Step 1 of execute_batch (line 112): _should_execute() is called
\* whatever force_count is
GateStep(force) == _should_execute(Counters, last_execution, now, config)

\* execute_batch, from its first line to the first work-provider await of
\* _execute_videos, or to its return when it does not get there
execute_batch(t, job, platforms, force, agent_ok) ==
    LET batch_id == Some(now)
        g == GateStep(force)
        c == g.counters
        d == _determine_batch_size(force, agent_ok, now, config)
        rec == [IdleTask EXCEPT !.job = job, !.platforms = platforms,
                                !.batch_id = batch_id, !.force = force,
                                !.gate = g.reason]
        sized == [rec EXCEPT !.asked = d.asked, !.batch_size = d.size,
                             !.agent_ok = d.asked => agent_ok]
    IN  /\ ~exited
        /\ ncycles < MaxCycles
        /\ ncycles' = ncycles + 1
        /\ last_hour_reset' = c.last_hour_reset
        /\ last_day_reset' = c.last_day_reset
        /\ IF g.reason # "proceed"
           THEN ReturnEarly(t, rec, c,
                    _create_skipped_result(batch_id, "Rate limit or quiet hours"))
           ELSE IF d.raised
           THEN IF ExceptException("Exception")
                THEN ReturnEarly(t, [rec EXCEPT !.raised = TRUE], c,
                         _create_failed_result(batch_id, "TypeError"))
                ELSE Propagate(t, rec, c)
           ELSE IF d.size = 0
           THEN ReturnEarly(t, sized, c,
                    _create_skipped_result(batch_id, "Agent vetoed execution"))
           ELSE IF d.size < 0
           THEN Finish(t, sized, c, <<>>)
           ELSE /\ daily_video_count' = c.daily_video_count
                /\ hourly_video_count' = c.hourly_video_count
                /\ current_batch' = batch_id
                /\ tasks' = [tasks EXCEPT ![t] =
                               [sized EXCEPT !.pc = "awaiting", !.calls = 1,
                                   !.attempts = <<Attempt(platforms, 0)>>]]
                /\ returned' = IdleTask
                /\ UNCHANGED <<last_execution, execution_history>>

\* _execute_videos resumes: the work-provider call of item i returned (ok)
\* or raised an Exception, which line 357 catches and records as a failed
\* item; the loop goes on to the next call, or ends and the cycle
\* completes.  What line 357 does not catch, lines 145 and 157 (the same
\* clause) do not catch either.
ItemReturns(t, ok) ==
    LET rec == tasks[t]
        results == Append(rec.results, IF ok THEN "success" ELSE "failed")
        abort == AbortBatch(ok, config)
    IN  /\ ~exited
        /\ InProgress(t)
        /\ IF ~ok /\ ~ExceptException("Exception")
           THEN /\ Propagate(t, rec, Counters)
                /\ UNCHANGED <<last_hour_reset, last_day_reset>>
           ELSE IF ~abort /\ rec.i + 1 < rec.batch_size
           THEN /\ tasks' = [tasks EXCEPT ![t] =
                               [rec EXCEPT !.i = rec.i + 1, !.results = results,
                                   !.calls = rec.calls + 1,
                                   !.attempts = Append(rec.attempts,
                                       Attempt(rec.platforms, rec.i + 1))]]
                /\ returned' = IdleTask
                /\ UNCHANGED coordinator_vars
           ELSE /\ Finish(t, rec, Counters, results)
                /\ UNCHANGED <<last_hour_reset, last_day_reset>>
        /\ UNCHANGED <<config, now, ticks, ncycles, scheduler_vars, probe>>

\* get_stats(): the keys is_running and current_batch of the dict it
\* returns (lines 481-482)
StatsSnapshot ==
    [is_running |-> current_batch # None, current_batch |-> current_batch]

-----------------------------------------------------------------------------
(* AntigravityScheduler *)

\* Number of running instances of the job id, as the executor counts them
Instances(id) == Cardinality({t \in TaskIds : InProgress(t) /\ tasks[t].job = id})

\* CanSubmit without the limit on running instances
CanSubmitAlways(id) == TRUE

\* A due run of the job id is submitted only below max_instances
CanSubmit(id) == Instances(id) < MaxInstances

\* start_scheduled: _add_cron_jobs or _add_interval_job, then start
start_scheduled ==
    /\ ~exited
    /\ ~is_running
    /\ jobs = {}
    /\ jobs' = IF config.optimal_times # <<>>
               THEN {CronId(config.optimal_times[k]) :
                        k \in 1..Len(config.optimal_times)}
               ELSE {IntervalId}
    /\ is_running' = TRUE
    /\ returned' = IdleTask
    /\ UNCHANGED <<config, now, ticks, coordinator_vars, tasks, ncycles,
                   dropped, exited, probe>>

\* A scheduled instant of the job id occurs and the job is run:
\* _default_scheduled_job calls execute_batch().  The decision provider
\* of the daemon is the stand-in of lines 291-298, which does not fail; a
\* provider that fails is part of SpecConfig and SpecOneShot.
Fire(id) ==
    /\ is_running
    /\ id \in jobs
    /\ CanSubmit(id)
    /\ execute_batch(NewTask, id, None, NoForce, TRUE)
    /\ UNCHANGED <<config, now, ticks, scheduler_vars, probe>>

\* A scheduled instant of the job id occurs while max_instances of it are
\* running: the run is skipped, nothing is queued
FireDropped(id) ==
    /\ ~exited
    /\ is_running
    /\ id \in jobs
    /\ ~CanSubmit(id)
    /\ dropped' = TRUE
    /\ returned' = IdleTask
    /\ UNCHANGED <<config, now, ticks, coordinator_vars, tasks, ncycles,
                   is_running, jobs, exited, probe>>

\* manual_trigger(force_count=...), no platforms given
manual_trigger(force) ==
    /\ execute_batch(NewTask, ManualId, None, force, TRUE)
    /\ UNCHANGED <<config, now, ticks, scheduler_vars, probe>>

\* run_once(), no platforms given: run.py calls it in the one-shot mode only, in which the
\* scheduler is never started
run_once ==
    /\ ~is_running
    /\ execute_batch(NewTask, RunOnceId, None, NoForce, TRUE)
    /\ UNCHANGED <<config, now, ticks, scheduler_vars, probe>>

\* The coroutines the executor of the AsyncIOScheduler is running: the
\* job instances in progress
RunningJobs == {t \in TaskIds : InProgress(t) /\ tasks[t].job \in jobs}

\* scheduler.shutdown(wait=True), line 201.  The scheduler stops its
\* timer, so no job is run any more.  What it does to the job instances
\* in progress is the library's: it leaves them running, or (cancel) it
\* cancels them, and the CancelledError raised at their await is caught
\* by no "except Exception", runs the finally clause of line 150 and ends
\* the coroutine.
Shutdown(cancel) ==
    /\ is_running' = FALSE
    /\ IF cancel /\ RunningJobs # {} /\ ~ExceptException("CancelledError")
       THEN /\ tasks' = [t \in TaskIds |->
                           IF t \in RunningJobs THEN IdleTask ELSE tasks[t]]
            /\ returned' = [tasks[CHOOSE t \in RunningJobs : TRUE]
                               EXCEPT !.pc = "cancelled"]
            /\ current_batch' = None
       ELSE /\ returned' = IdleTask
            /\ UNCHANGED <<tasks, current_batch>>

\* A stop() that logs and returns without shutting the scheduler down
stop_without_shutdown(cancel) ==
    /\ ~exited
    /\ Len(probe) < MaxStops
    /\ probe' = Append(probe, IF is_running THEN "stopped" ELSE "not running")
    /\ returned' = IdleTask
    /\ UNCHANGED <<config, now, ticks, coordinator_vars, tasks, ncycles,
                   is_running, jobs, dropped>>

\* stop(): returns at once when is_running is false (line 195), else
\* shuts the scheduler down and clears is_running.  The calls of stop()
\* and what each did are logged in probe.
stop(cancel) ==
    /\ ~exited
    /\ Len(probe) < MaxStops
    /\ probe' = Append(probe, IF is_running THEN "stopped" ELSE "not running")
    /\ IF is_running
       THEN Shutdown(cancel)
       ELSE /\ returned' = IdleTask
            /\ UNCHANGED <<is_running, tasks, current_batch>>
    /\ UNCHANGED <<config, now, ticks, execution_history, last_execution,
                   daily_video_count, hourly_video_count, last_hour_reset,
                   last_day_reset, ncycles, jobs, dropped>>

\* stop() is called, by run_daemon or run_scheduled after the loop was
\* interrupted or by the code that embeds the scheduler
Call_stop(cancel) ==
    /\ stop(cancel)
    /\ UNCHANGED exited

\* _signal_handler (SIGINT, SIGTERM): stop(), then sys.exit(0), which
\* ends the event loop and with it every coroutine still suspended
_signal_handler(cancel) ==
    /\ stop(cancel)
    /\ exited' = TRUE

\* Time passes
Tick(d) ==
    /\ ticks < MaxTicks
    /\ ticks' = ticks + 1
    /\ now' = now + d
    /\ returned' = IdleTask
    /\ UNCHANGED <<config, coordinator_vars, tasks, ncycles, scheduler_vars,
                   probe>>

-----------------------------------------------------------------------------
(* The process *)

AllJobIds == {IntervalId} \cup {CronId(BaseConfig.optimal_times[k]) :
                                   k \in 1..Len(BaseConfig.optimal_times)}

\* BatchCoordinator.__init__ and AntigravityScheduler.__init__, for the
\* configuration and the clock of the process
Constructed ==
    /\ ticks = 0
    /\ current_batch = None
    /\ execution_history = <<>>
    /\ last_execution = None
    /\ daily_video_count = 0
    /\ hourly_video_count = 0
    /\ last_hour_reset = now
    /\ last_day_reset = now
    /\ tasks = [t \in TaskIds |-> IdleTask]
    /\ ncycles = 0
    /\ is_running = FALSE
    /\ jobs = {}
    /\ dropped = FALSE
    /\ exited = FALSE
    /\ returned = IdleTask

Init ==
    /\ config \in Configs
    /\ now \in StartTimes
    /\ Constructed
    /\ probe = None

Next ==
    \/ start_scheduled
    \/ \E id \in AllJobIds : Fire(id)
    \/ \E id \in AllJobIds : FireDropped(id)
    \/ \E f \in ForceCounts : manual_trigger(f)
    \/ run_once
    \/ \E t \in TaskIds, ok \in BOOLEAN : ItemReturns(t, ok)
    \/ \E d \in Steps : Tick(d)

Spec == Init /\ [][Next]_vars

\* The coordinator alone, as the code that embeds it drives it: cycles are
\* invoked directly, with or without a forced count, one after the other
\* or overlapping, while the clock advances.  A scheduled fire is the
\* call without arguments that run_once makes.
CoordinatorNext ==
    \/ \E f \in ForceCounts : manual_trigger(f)
    \/ run_once
    \/ \E t \in TaskIds, ok \in BOOLEAN : ItemReturns(t, ok)
    \/ \E d \in Steps : Tick(d)

SpecCoordinator == Init /\ [][CoordinatorNext]_vars

\* The process when every work-provider call that was issued eventually
\* returns or raises: the await of line 343 (agent.generate_video) ends
Fairness == \A t \in TaskIds : WF_vars(\E ok \in BOOLEAN : ItemReturns(t, ok))

\* The daemon at one instant of the clock: its jobs fire and cycles are
\* triggered by hand, one after the other or overlapping
LiveNext ==
    \/ start_scheduled
    \/ \E id \in AllJobIds : Fire(id)
    \/ \E id \in AllJobIds : FireDropped(id)
    \/ \E f \in ForceCounts : manual_trigger(f)
    \/ \E t \in TaskIds, ok \in BOOLEAN : ItemReturns(t, ok)

SpecLive == Init /\ [][LiveNext]_vars /\ Fairness

-----------------------------------------------------------------------------
(* Direct calls of the pure methods, on inputs drawn from bounded sets *)

MaxRequested == 4     \* largest requested count compiled directly

process_vars == <<config, now, ticks, coordinator_vars, tasks, ncycles,
                  scheduler_vars, returned>>

\* Times of day and window ends tried for _is_quiet_hours
QuietTimes == {0, 60, 120, 180, 360, 600, 1320, 1380, 1410}

QuietInit ==
    /\ config \in {[BaseConfig EXCEPT !.quiet_hours_start = s,
                                         !.quiet_hours_end = e] :
                       s \in QuietTimes, e \in QuietTimes}
    /\ now \in QuietTimes
    /\ Constructed
    /\ probe = None

\* _is_quiet_hours() is called at the instant now
Call_is_quiet_hours ==
    /\ probe = None
    /\ probe' = Some(_is_quiet_hours(TimeOfDay(now), config))
    /\ UNCHANGED process_vars

SpecQuiet == QuietInit /\ [][Call_is_quiet_hours]_vars

\* The lists of VideoResult statuses of at most MaxRequested entries
ResultLists ==
    UNION {[1..n -> {"success", "failed"}] : n \in 0..MaxRequested}

\* The calls _compile_batch_result(batch_id, requested, results, start_time)
\* with no more results than requested
CompileCalls ==
    {c \in [requested : 0..MaxRequested, results : ResultLists, ret : {None}] :
        Len(c.results) <= c.requested}

CompileInit ==
    /\ config = BaseConfig
    /\ now \in StartTimes
    /\ Constructed
    /\ probe \in CompileCalls

\* _compile_batch_result is called with the arguments of probe
Call_compile_batch_result ==
    /\ probe.ret = None
    /\ probe' = [probe EXCEPT !.ret =
                    Some(_compile_batch_result(Some(now), probe.requested,
                                               probe.results))]
    /\ UNCHANGED process_vars

SpecCompile == CompileInit /\ [][Call_compile_batch_result]_vars

\* A process that runs one cycle and exits, as run.py --manual and --once
\* do: a coordinator is constructed and execute_batch is called once, with
\* or without a platform list and a forced count.  The limits are those of
\* the default configuration.
OneShotConfigs ==
    {[BaseConfig EXCEPT !.max_videos = 5, !.default_batch_size = 3,
                        !.max_daily_videos = 20, !.max_hourly_videos = 8,
                        !.retry_on_failure = r] : r \in BOOLEAN}

PlatformLists ==
    {None, Some(<<>>), Some(<<"A">>), Some(<<"A", "B">>),
     Some(<<"A", "B", "C">>)}

OneShotCounts == {NoForce} \cup {ForceInt(n) : n \in {1, 3, 5}}

OneShotInit ==
    /\ config \in OneShotConfigs
    /\ now \in StartTimes
    /\ Constructed
    /\ probe = None

\* coordinator.execute_batch(platforms=..., force_count=...) is called on
\* the new coordinator
Call_execute_batch(platforms, force) ==
    /\ ncycles = 0
    /\ \E agent_ok \in BOOLEAN :
          execute_batch(NewTask, ManualId, platforms, force, agent_ok)
    /\ UNCHANGED <<config, now, ticks, scheduler_vars, probe>>

OneShotNext ==
    \/ \E p \in PlatformLists, f \in OneShotCounts : Call_execute_batch(p, f)
    \/ \E t \in TaskIds, ok \in BOOLEAN : ItemReturns(t, ok)

SpecOneShot == OneShotInit /\ [][OneShotNext]_vars
\* A process from its configuration on: the configuration is loaded from
\* the environment, or a BatchConfig is constructed from field values;
\* when that succeeds the coordinator is constructed and one cycle is run.
EnvBatchSizes == {None} \cup {Some(n) : n \in {-1, 0, 2, 3}}

FieldValues ==
    {[BaseConfig EXCEPT !.min_videos = a, !.max_videos = b,
                        !.default_batch_size = d] :
        a \in {0, 1, 3}, b \in {2, 11}, d \in {1, 3}}

ConfigInit ==
    /\ config \in {load_config_from_env(e) : e \in EnvBatchSizes} \cup FieldValues
    /\ now \in StartTimes
    /\ Constructed
    /\ probe = None

\* BatchConfig(...) validates the fields; BatchCoordinator(config, agent)
\* takes the configuration as it is (line 71)
Construct ==
    /\ probe = None
    /\ probe' = IF BatchConfigAccepts(config)
                THEN Some("constructed")
                ELSE Some("ValidationError")
    /\ UNCHANGED process_vars

\* run.py --once: one cycle on the new coordinator
run_once_cli ==
    /\ probe = Some("constructed")
    /\ ncycles = 0
    /\ \E agent_ok \in BOOLEAN :
          execute_batch(NewTask, RunOnceId, None, NoForce, agent_ok)
    /\ UNCHANGED <<config, now, ticks, scheduler_vars, probe>>

ConfigNext ==
    \/ Construct
    \/ run_once_cli
    \/ \E t \in TaskIds, ok \in BOOLEAN : ItemReturns(t, ok)

SpecConfig == ConfigInit /\ [][ConfigNext]_vars

\* The daemon and its shutdown: the scheduler is started, its jobs fire,
\* cycles are triggered by hand, and stop() is called or a termination
\* signal arrives at any moment.  Once the process has exited no step of
\* it runs.  The daemon is started outside the peak hours, or inside them
\* (09:55), when the stand-in decision is one more than the default size.
ShutdownTimes == StartTimes \cup {595}

ShutdownInit ==
    /\ config \in Configs
    /\ now \in ShutdownTimes
    /\ Constructed
    /\ probe = <<>>

ShutdownNext ==
    \/ start_scheduled
    \/ \E id \in AllJobIds : Fire(id)
    \/ \E id \in AllJobIds : FireDropped(id)
    \/ \E f \in ForceCounts : manual_trigger(f)
    \/ \E t \in TaskIds, ok \in BOOLEAN : ItemReturns(t, ok)
    \/ \E cancel \in BOOLEAN : Call_stop(cancel)
    \/ \E cancel \in BOOLEAN : _signal_handler(cancel)

SpecShutdown == ShutdownInit /\ [][ShutdownNext]_vars

MaxAppends == 102     \* completed cycles recorded one after the other

\* A long run of a coordinator, seen from its metrics: once a day a cycle
\* passes the Gate, executes its one item (the default size of BaseConfig)
\* with success, and its result is compiled and handed to _update_metrics
\* (lines 112-132, without the suspension in between)
HistoryInit ==
    /\ config = BaseConfig
    /\ now \in StartTimes
    /\ Constructed
    /\ probe = None

CycleCompletes ==
    LET g == _should_execute(Counters, last_execution, now, config)
        r == _compile_batch_result(Some(now), 1, <<"success">>)
        m == _update_metrics(g.counters, execution_history, r, now)
    IN  /\ ncycles < MaxAppends
        /\ g.reason = "proceed"
        /\ ncycles' = ncycles + 1
        /\ last_hour_reset' = g.counters.last_hour_reset
        /\ last_day_reset' = g.counters.last_day_reset
        /\ daily_video_count' = m.daily_video_count
        /\ hourly_video_count' = m.hourly_video_count
        /\ last_execution' = m.last_execution
        /\ execution_history' = m.execution_history
        /\ now' = now + OneDay
        /\ UNCHANGED <<config, ticks, current_batch, tasks, scheduler_vars,
                       returned, probe>>

SpecHistory == HistoryInit /\ [][CycleCompletes]_vars

MaxRecorded == 11     \* cycles recorded before the statistics are read

\* A coordinator over the days, seen from its statistics: once a day a
\* cycle passes the Gate with a forced count of -1 (min(-1, max_videos) is
\* -1, not 0: range(-1) is empty and the result is recorded) or with the
\* default size 1, whose item succeeds or fails; its result is compiled
\* and handed to _update_metrics.  Then get_stats() is called.
PerfCounts == {NoForce, ForceInt(-1)}

MaxForced == 1        \* cycles with a forced count among those recorded

\* Number of results in h that were requested with a forced count of -1
RECURSIVE ForcedRecorded(_)
ForcedRecorded(h) ==
    IF h = <<>> THEN 0
    ELSE (IF Head(h).requested_count < 0 THEN 1 ELSE 0)
             + ForcedRecorded(Tail(h))

CycleRecorded(force, ok) ==
    LET g == _should_execute(Counters, last_execution, now, config)
        d == _determine_batch_size(force, TRUE, now, config)
        results == IF d.size < 1 THEN <<>>
                   ELSE <<IF ok THEN "success" ELSE "failed">>
        r == _compile_batch_result(Some(now), d.size, results)
        m == _update_metrics(g.counters, execution_history, r, now)
    IN  /\ probe = None
        /\ ncycles < MaxRecorded
        /\ force # NoForce => ForcedRecorded(execution_history) < MaxForced
        /\ g.reason = "proceed"
        /\ d.size # 0
        /\ d.size <= 1
        /\ ncycles' = ncycles + 1
        /\ last_hour_reset' = g.counters.last_hour_reset
        /\ last_day_reset' = g.counters.last_day_reset
        /\ daily_video_count' = m.daily_video_count
        /\ hourly_video_count' = m.hourly_video_count
        /\ last_execution' = m.last_execution
        /\ execution_history' = m.execution_history
        /\ now' = now + OneDay
        /\ UNCHANGED <<config, ticks, current_batch, tasks, scheduler_vars,
                       returned, probe>>

\* get_stats(): its recent_performance (line 480)
get_stats ==
    /\ probe = None
    /\ probe' = Some(_get_recent_performance(execution_history))
    /\ UNCHANGED process_vars

PerfNext ==
    \/ \E f \in PerfCounts, ok \in BOOLEAN : CycleRecorded(f, ok)
    \/ get_stats

SpecPerf == HistoryInit /\ [][PerfNext]_vars

\* The process under a quiet window that starts and ends at the same time
\* of day (before, at and after the instant the process starts): the
\* scheduler is started, its jobs fire, cycles are triggered by hand or
\* run once, and the clock advances.  No cycle gets as far as the
\* Executor here (C31), so no work-provider call is there to return and
\* no fire finds an instance of its job running.
DegenerateTimes == {0, 535, 600, 1439}

DegenerateConfigs ==
    {[c EXCEPT !.quiet_hours_start = s, !.quiet_hours_end = s] :
        c \in Configs, s \in DegenerateTimes}

DegenerateInit ==
    /\ config \in DegenerateConfigs
    /\ now \in StartTimes
    /\ Constructed
    /\ probe = None

DegenerateNext ==
    \/ start_scheduled
    \/ \E id \in AllJobIds : Fire(id)
    \/ \E f \in ForceCounts : manual_trigger(f)
    \/ run_once
    \/ \E d \in Steps : Tick(d)

SpecDegenerate == DegenerateInit /\ [][DegenerateNext]_vars

-----------------------------------------------------------------------------
(* Properties *)

\* The cycles in progress: started and not yet returned
CyclesInProgress == {t \in TaskIds : InProgress(t)}

\* C1 (single-flight): at every instant at most one cycle is in progress
\* process-wide; a manual_trigger or run_once invoked while another cycle
\* is suspended at a work-provider await does not start a second cycle.
C1_SingleFlight == Cardinality(CyclesInProgress) <= 1

\* C2 (per-trigger overlap guard): for every registered trigger id at most
\* one fire is in progress at any time; a scheduled instant that occurs
\* while the id's previous fire is still running is dropped.
C2_OverlapGuard == \A id \in jobs : Instances(id) <= 1

\* C2 witness: a fire was dropped while a fire of a trigger is running
C2_Witness == dropped /\ \E id \in jobs : Instances(id) = 1


\* A step in which execute_batch is invoked
CycleStarts == ncycles' = ncycles + 1

\* The coroutine of the cycle invoked by the step, as the step leaves it:
\* suspended at its first work-provider call, or returned
Started ==
    IF tasks'[ncycles + 1].pc = "awaiting" THEN tasks'[ncycles + 1] ELSE returned'

\* The time of day t lies in the quiet window from start to end
InsideQuietHours(t, start, end) ==
    \/ start < end /\ start <= t /\ t <= end
    \/ start >= end /\ (t >= start \/ t <= end)

\* C3 (gate order): the Gate applies daily limit, hourly limit, cooldown,
\* quiet hours in that order and the first failing check decides; it
\* returns Skip iff one of the four fails, otherwise Proceed.
C3_GateOrder ==
    [][CycleStarts =>
        LET gate == Started.gate
            daily == daily_video_count' >= config.max_daily_videos
            hourly == hourly_video_count' >= config.max_hourly_videos
            cooldown == /\ last_execution # None
                        /\ now - last_execution[1] < config.api_cooldown_minutes
            quiet == InsideQuietHours(TimeOfDay(now), config.quiet_hours_start,
                                      config.quiet_hours_end)
        IN  /\ (gate # "proceed") <=> (daily \/ hourly \/ cooldown \/ quiet)
            /\ (gate = "daily limit") <=> daily
            /\ (gate = "hourly limit") <=> (~daily /\ hourly)
            /\ (gate = "cooldown") <=> (~daily /\ ~hourly /\ cooldown)
            /\ (gate = "quiet hours") <=>
                  (~daily /\ ~hourly /\ ~cooldown /\ quiet)
            /\ (gate # "proceed") =>
                  /\ returned'.pc = "done"
                  /\ returned'.ret[1].status = "skipped"
                  /\ returned'.ret[1].agent_decision = "Rate limit or quiet hours"
    ]_vars

\* C3 witness: a cycle was skipped for the daily limit while the hourly
\* limit was reached too
C3_Witness ==
    /\ returned.pc = "done"
    /\ returned.gate = "daily limit"
    /\ hourly_video_count >= config.max_hourly_videos

\* C4 (lazy sliding reset before the limit checks): on every Gate
\* evaluation, if now - hourResetAt >= 1 hour then hourlyCount becomes 0
\* and hourResetAt becomes now, likewise and independently for the daily
\* count with a 1-day window; otherwise count and timestamp are unchanged;
\* the limits are compared with the counts after the reset.
C4_ResetBeforeChecks ==
    [][CycleStarts =>
        /\ IF now - last_hour_reset >= 60
           THEN hourly_video_count' = 0 /\ last_hour_reset' = now
           ELSE /\ hourly_video_count' = hourly_video_count
                /\ last_hour_reset' = last_hour_reset
        /\ IF now - last_day_reset >= 1440
           THEN daily_video_count' = 0 /\ last_day_reset' = now
           ELSE /\ daily_video_count' = daily_video_count
                /\ last_day_reset' = last_day_reset
        /\ (Started.gate = "daily limit") <=>
              (daily_video_count' >= config.max_daily_videos)
        /\ (Started.gate = "hourly limit") <=>
              /\ daily_video_count' < config.max_daily_videos
              /\ hourly_video_count' >= config.max_hourly_videos
    ]_vars

\* C4 witness: a cycle proceeds at the instant its Gate reset an hourly
\* count that had reached the limit
C4_Witness ==
    /\ \E t \in TaskIds : InProgress(t) /\ tasks[t].batch_id = Some(now)
    /\ last_hour_reset = now
    /\ last_day_reset < now
    /\ hourly_video_count = 0
    /\ daily_video_count >= config.max_hourly_videos

\* C5 (quiet-hours membership): t is inside quiet hours iff
\* (start < end and start <= t <= end) or (start >= end and (t >= start or
\* t <= end)); 01:00-06:00 contains 03:00 but not 23:00, and 22:00-02:00
\* contains 23:30 but not 10:00.
C5_QuietHours ==
    probe # None =>
        LET start == config.quiet_hours_start
            end == config.quiet_hours_end
            t == TimeOfDay(now)
        IN  /\ probe[1] <=> InsideQuietHours(t, start, end)
            /\ (start = 60 /\ end = 360 /\ t = 180) => probe[1]
            /\ (start = 60 /\ end = 360 /\ t = 1380) => ~probe[1]
            /\ (start = 1320 /\ end = 120 /\ t = 1410) => probe[1]
            /\ (start = 1320 /\ end = 120 /\ t = 600) => ~probe[1]

\* C5 witness: 23:30 was found inside the window 22:00-02:00
C5_Witness ==
    /\ probe = Some(TRUE)
    /\ config.quiet_hours_start = 1320
    /\ config.quiet_hours_end = 120
    /\ now = 1410

\* The integer f clamped to [lo, hi]
Clamp(f, lo, hi) == IF f < lo THEN lo ELSE IF f > hi THEN hi ELSE f

\* The cycles that have passed the Gate: in progress, or just returned
Cycles == {returned} \cup {tasks[t] : t \in TaskIds}

\* C6 (forced count): when a forced count f is supplied, the batch size
\* used is exactly f clamped to [0, maxVideos], for every integer f, and
\* the decision provider is not consulted.
C6_ForcedClamp ==
    \A c \in Cycles :
        (c.pc # "idle" /\ c.force.kind = "int" /\ c.gate = "proceed") =>
            /\ c.batch_size = Clamp(c.force.v, 0, config.max_videos)
            /\ ~c.asked

\* C7 (short-circuit to Skipped): whenever the Gate returns Skip or the
\* Decider returns size 0, the cycle returns a BatchResult with status
\* Skipped (not Failed), requestedCount 0 and no items, and the work
\* provider is never invoked in that cycle.
C7_ShortCircuit ==
    ( /\ returned.pc = "done"
      /\ \/ returned.gate # "proceed"
         \/ ~returned.raised /\ returned.batch_size = 0 ) =>
        /\ returned.ret[1].status = "skipped"
        /\ returned.ret[1].requested_count = 0
        /\ returned.ret[1].videos = <<>>
        /\ returned.calls = 0

\* C7 witness: with maxDailyVideos = 2 and dailyCount = 2 a cycle was
\* skipped by the Gate
C7_Witness ==
    /\ returned.pc = "done"
    /\ returned.gate = "daily limit"
    /\ config.max_daily_videos = 2
    /\ daily_video_count = 2
    /\ returned.ret[1].status = "skipped"

\* C8 (result classification): for every (requested, successful, failed)
\* with successful + failed <= requested, including requested = 0, the
\* status is Completed iff successful = requested and requested > 0,
\* Partial iff 0 < successful < requested, Failed iff successful = 0 and
\* failed > 0, Skipped iff successful = 0 and failed = 0.
C8_Classification ==
    probe.ret # None =>
        LET r == probe.ret[1]
            requested == r.requested_count
            successful == r.successful_count
            failed == r.failed_count
        IN  /\ (r.status = "completed") <=>
                  (successful = requested /\ requested > 0)
            /\ (r.status = "partial") <=>
                  (0 < successful /\ successful < requested)
            /\ (r.status = "failed") <=> (successful = 0 /\ failed > 0)
            /\ (r.status = "skipped") <=> (successful = 0 /\ failed = 0)

\* C9 (counts of every returned BatchResult): on every path
\* successfulCount + failedCount <= requestedCount, skippedCount =
\* requestedCount - len(items), and the four counts are >= 0.
C9_ResultCounts ==
    returned.pc = "done" =>
        LET r == returned.ret[1]
        IN  /\ r.successful_count + r.failed_count <= r.requested_count
            /\ r.skipped_count = r.requested_count - Len(r.videos)
            /\ r.requested_count >= 0
            /\ r.successful_count >= 0
            /\ r.failed_count >= 0
            /\ r.skipped_count >= 0

\* C10 (orchestration failure): an unexpected error raised during the
\* orchestration of a cycle is converted into a BatchResult with status
\* Failed, requested, successful, failed and skipped counts all 0, and the
\* error recorded in the rationale.
C10_FailedResult ==
    (returned.pc = "done" /\ returned.raised) =>
        LET r == returned.ret[1]
        IN  /\ r.status = "failed"
            /\ r.requested_count = 0
            /\ r.successful_count = 0
            /\ r.failed_count = 0
            /\ r.skipped_count = 0
            /\ r.agent_decision = "TypeError"

\* C11 (nothing throws out of a scheduled fire): whatever is raised inside
\* a scheduled fire, the fire returns normally with a BatchResult, its
\* trigger stays registered and the scheduler keeps running, so that the
\* trigger's later instants start new cycles.
C11_FireReturns ==
    (returned.pc # "idle" /\ returned.job \in AllJobIds) =>
        /\ returned.pc = "done"
        /\ returned.ret # None
        /\ is_running
        /\ returned.job \in jobs
        /\ CanSubmit(returned.job)

\* C11 witness: a scheduled fire in which the work provider raised has
\* returned its result, and its trigger can fire again
C11_Witness ==
    /\ returned.pc = "done"
    /\ returned.job \in jobs
    /\ returned.ret[1].failed_count >= 1
    /\ is_running
    /\ CanSubmit(returned.job)
\* The cycles that reached the Executor with a positive count
Executing == {c \in Cycles : c.pc # "idle" /\ c.gate = "proceed" /\ c.batch_size > 0}

\* C12 (abort policy): with continue-on-failure false no item is attempted
\* after the first failed item, so the items end with that single Failed
\* entry; the unattempted items are counted in skippedCount = count -
\* len(items) and not as Failed entries; count = 3 with item 2 failing
\* yields items = [Success, Failed], skippedCount = 1, status Partial.
C12_AbortPolicy ==
    ~config.retry_on_failure =>
        \A c \in Executing :
            LET n == Len(c.results)
            IN  /\ \A k \in 1..(n - 1) : c.results[k] = "success"
                /\ c.pc = "awaiting" => \A k \in 1..n : c.results[k] = "success"
                /\ c.pc = "done" =>
                      LET r == c.ret[1]
                      IN  /\ r.videos = c.results
                          /\ c.calls = n
                          /\ n < c.batch_size => c.results[n] = "failed"
                          /\ r.failed_count <= 1
                          /\ r.skipped_count = c.batch_size - n
                          /\ (c.batch_size = 3 /\ c.results = <<"success", "failed">>)
                                => (r.skipped_count = 1 /\ r.status = "partial")

\* C12 witness: count = 3, item 2 failed under the abort policy
C12_Witness ==
    /\ ~config.retry_on_failure
    /\ returned.pc = "done"
    /\ returned.batch_size = 3
    /\ returned.ret[1].videos = <<"success", "failed">>
    /\ returned.ret[1].skipped_count = 1
    /\ returned.ret[1].status = "partial"

\* C13 (continue policy): with continue-on-failure true exactly count
\* items are attempted whatever the earlier failures, each item index
\* exactly once (a failed item is never retried), len(items) = count and
\* skippedCount = 0.
C13_ContinuePolicy ==
    config.retry_on_failure =>
        \A c \in Executing :
            /\ Len(c.attempts) = c.calls
            /\ \A k \in 1..Len(c.attempts) : c.attempts[k].index = k - 1
            /\ c.pc = "awaiting" => c.calls = Len(c.results) + 1
            /\ c.pc = "done" =>
                  /\ c.calls = c.batch_size
                  /\ Len(c.ret[1].videos) = c.batch_size
                  /\ c.ret[1].skipped_count = 0

\* C13 witness: under the continue policy a cycle of 3 items went on
\* after its first and finished after its last item failed
C13_Witness ==
    /\ config.retry_on_failure
    /\ returned.pc = "done"
    /\ returned.ret[1].videos = <<"failed", "success", "failed">>
    /\ returned.calls = 3

\* C14 (round robin): for every non-empty platform list P and every
\* attempted item index i (0-based) the platform of the item is
\* P[i mod len(P)], e.g. P = [A, B] and count = 5 give A, B, A, B, A; when
\* no list or an empty list is supplied the default list is substituted,
\* so the Executor never indexes an empty list.
C14_RoundRobin ==
    \A c \in Executing :
        LET P == IF c.platforms = None \/ c.platforms[1] = <<>>
                 THEN <<"tiktok", "instagram">>
                 ELSE c.platforms[1]
        IN  /\ Len(P) > 0
            /\ \A k \in 1..Len(c.attempts) :
                  c.attempts[k].platform = P[((k - 1) % Len(P)) + 1]
            /\ (c.platforms = Some(<<"A", "B">>) /\ Len(c.attempts) = 5) =>
                  [k \in 1..5 |-> c.attempts[k].platform]
                      = <<"A", "B", "A", "B", "A">>

\* C14 witness: 5 items were issued for the platforms [A, B]
C14_Witness ==
    /\ returned.pc = "done"
    /\ returned.platforms = Some(<<"A", "B">>)
    /\ Len(returned.attempts) = 5
    /\ returned.attempts[5].platform = "A"
\* C15 (bounded FIFO history): after any sequence of cycles len(History)
\* <= 100, the entries keep their append order, and appending when 100
\* entries are present evicts exactly the oldest one: the history is the
\* last min(n, 100) of the n results appended, in order.  The cycles are
\* a day apart and the batch id of a result is the instant of its cycle.
C15_HistoryBounded ==
    LET n == Len(execution_history)
    IN  /\ n <= 100
        /\ n = Min(ncycles, 100)
        /\ \A k \in 1..n :
              execution_history[k].batch_id = Some(now - (n - k + 1) * OneDay)

\* C15 witness: after 101 cycles the history has 100 entries and begins
\* with the result of the second cycle
C15_Witness ==
    /\ ncycles = 101
    /\ Len(execution_history) = 100
    /\ execution_history[1].batch_id = Some(now - 100 * OneDay)
    /\ execution_history[100].batch_id = Some(now - OneDay)
\* C16 (decider fallback): when adaptive mode is on and the call of the
\* decision provider fails, the cycle still proceeds with the default
\* batch size (not zero, not Failed by the orchestration) and the
\* rationale of the returned BatchResult records the fallback reason.
C16_DeciderFallback ==
    ( /\ returned.pc = "done"
      /\ returned.gate = "proceed"
      /\ returned.asked
      /\ ~returned.agent_ok
      /\ config.default_batch_size > 0 ) =>
        /\ ~returned.raised
        /\ returned.batch_size = config.default_batch_size
        /\ returned.ret[1].requested_count = config.default_batch_size
        /\ returned.calls >= 1
        /\ returned.ret[1].agent_decision = "Fallback due to error"
\* C17 (decided size): when no forced count is given and the decision
\* provider succeeds with size s, the batch size used is 0 if s = 0 and
\* otherwise s clamped to [minVideos, maxVideos]; in particular it never
\* exceeds maxVideos.
C17_DecidedSizeClamped ==
    ( /\ returned.pc = "done"
      /\ returned.gate = "proceed"
      /\ returned.force = NoForce
      /\ returned.asked
      /\ returned.agent_ok
      /\ config.min_videos <= config.max_videos ) =>
        LET s == PlaceholderSize(now, config)
        IN  /\ returned.batch_size =
                  IF s = 0 THEN 0
                  ELSE Clamp(s, config.min_videos, config.max_videos)
            /\ returned.batch_size <= config.max_videos

\* A configuration whose sizes are consistent
ValidSizes(cfg) ==
    /\ cfg.min_videos <= cfg.max_videos
    /\ cfg.min_videos <= cfg.default_batch_size
    /\ cfg.default_batch_size <= cfg.max_videos

\* C18 (fail-fast configuration): a configuration with minVideos >
\* maxVideos, or with defaultBatchSize outside [minVideos, maxVideos], is
\* rejected at construction, and no coordinator or cycle ever runs with it.
C18_ConfigValidated ==
    (probe = Some("constructed") \/ ncycles > 0) => ValidSizes(config)
\* C19 (graceful shutdown): if a termination request (SIGINT/SIGTERM or
\* stop()) arrives while a cycle is Firing, that cycle runs to completion
\* and its already-issued work-provider call finishes with its result
\* recorded before the process is released: no fire is cancelled, and
\* the process does not exit with a fire in progress.
C19_GracefulShutdown ==
    /\ returned.pc # "cancelled"
    /\ exited => RunningJobs = {}

\* stop() has been called on the running scheduler
Stopped == \E k \in 1..Len(probe) : probe[k] = "stopped"

\* C20 (no fire after a termination request): once stop() has been called
\* no trigger starts a further cycle and no fire is accepted, the running
\* flag of the scheduler is false, and calling stop() again is a no-op.
C20_NoFireAfterStop ==
    [][ /\ Len(probe') > Len(probe) => ~is_running'
        /\ (Len(probe') > Len(probe) /\ ~is_running) =>
              UNCHANGED <<is_running, jobs, dropped, tasks, ncycles,
                          coordinator_vars>>
        /\ Stopped =>
              /\ ~is_running /\ ~is_running'
              /\ dropped' = dropped
              /\ CycleStarts => Started.job \notin AllJobIds
      ]_vars

\* C20 witness: stop() was called on the running scheduler and once more
\* after that, and a cycle was triggered by hand since
C20_Witness ==
    /\ probe = <<"stopped", "not running">>
    /\ ~is_running
    /\ jobs # {}
    /\ \E t \in TaskIds : InProgress(t) /\ tasks[t].job = ManualId

\* C21 (cancellation at the next inter-item boundary): once a shutdown
\* request has been issued during an in-flight cycle, the already-issued
\* work-provider call finishes, and no further work-provider call is
\* issued for the remaining items of that cycle.  The cycles are the
\* scheduled fires in progress after stop(), all of which began before
\* it (C20); what the request does to the call already issued is C19.
C21_CancelAtBoundary ==
    [][Stopped =>
          \A t \in RunningJobs : tasks'[t].calls <= tasks[t].calls
      ]_vars

\* The instant the cycle of the newest History entry started: its batch id
\* is formatted from the clock read at line 103
LastExecutedStart ==
    IF execution_history = <<>>
    THEN None
    ELSE execution_history[Len(execution_history)].batch_id

\* C22 (cooldown from the start of the last executed cycle): a cycle is
\* skipped for cooldown iff less than cooldownMinutes has elapsed since
\* the instant the previous executed cycle started; lastExecutionAt is
\* that cycle's start time, not its completion time.
C22_CooldownFromStart ==
    [][CycleStarts =>
        LET daily == daily_video_count' >= config.max_daily_videos
            hourly == hourly_video_count' >= config.max_hourly_videos
            prev == LastExecutedStart
            elapsed == now - prev[1]
        IN  /\ last_execution = prev
            /\ (Started.gate = "cooldown") <=>
                  /\ ~daily
                  /\ ~hourly
                  /\ prev # None
                  /\ elapsed < config.api_cooldown_minutes
    ]_vars

\* The ratio r has the value a / b
SameRatio(r, a, b) == r.num * b = a * r.den

\* C23 (recent performance): over the last min(10, len(History)) entries
\* successRate is undefined (None), not zero, whenever the requested
\* counts of the window sum to 0, a non-empty window included, and
\* otherwise it is sum(successful) / sum(requested); avgBatchSize is
\* sum(requested) / windowSize.
C23_RecentPerformance ==
    probe # None =>
        LET h == execution_history
            n == Min(10, Len(h))
            window == [k \in 1..n |-> h[Len(h) - n + k]]
            requested == SumRequested(window)
            successful == SumSuccessful(window)
            p == probe[1]
        IN  /\ requested = 0 => p.success_rate = None
            /\ requested # 0 =>
                  /\ p.success_rate # None
                  /\ SameRatio(p.success_rate[1], successful, requested)
            /\ n > 0 =>
                  /\ p.avg_batch_size # None
                  /\ SameRatio(p.avg_batch_size[1], requested, n)

\* C24 (strict rate limits): in every reachable state, after any sequence
\* of cycles (scheduled or manual, with any forced counts), dailyCount <=
\* maxDailyVideos and hourlyCount <= maxHourlyVideos.
C24_RateLimits ==
    /\ daily_video_count <= config.max_daily_videos
    /\ hourly_video_count <= config.max_hourly_videos

\* The cycle that returned in the last step did so without executing:
\* its result is not in the History
ReturnedEarly ==
    /\ returned.pc = "done"
    /\ returned.gate # "proceed" \/ returned.raised \/ returned.batch_size = 0

\* C25 (unique batch id): any two distinct cycles started on the same
\* coordinator, including two started within the same clock second or
\* overlapping in time, carry different batch ids.  The cycles compared
\* are those in progress, those recorded in the History and the one that
\* has just returned without executing.
C25_UniqueBatchId ==
    LET h == execution_history
    IN  /\ \A t, u \in CyclesInProgress :
              t # u => tasks[t].batch_id # tasks[u].batch_id
        /\ \A j, k \in 1..Len(h) : j # k => h[j].batch_id # h[k].batch_id
        /\ \A t \in CyclesInProgress, k \in 1..Len(h) :
              tasks[t].batch_id # h[k].batch_id
        /\ ReturnedEarly =>
              /\ \A t \in CyclesInProgress :
                    tasks[t].batch_id # returned.batch_id
              /\ \A k \in 1..Len(h) : h[k].batch_id # returned.batch_id

\* The statuses a returned BatchResult may have
TerminalStatuses == {"completed", "partial", "failed", "skipped"}

\* C26 (every cycle terminates): assuming each decision and work-provider
\* call eventually returns or raises, every started cycle eventually
\* returns a BatchResult whose status is Completed, Partial, Failed or
\* Skipped (never Pending or Running), and it goes forward only: a cycle
\* in the Executor either moves to its next item or compiles and returns,
\* with the Gate outcome and the size it was given.
C26_CycleTerminates ==
    /\ [](/\ returned.pc \in {"idle", "done"}
          /\ returned.pc = "done" =>
                /\ returned.ret # None
                /\ returned.ret[1].status \in TerminalStatuses)
    /\ [][CycleStarts => Started.pc \in {"awaiting", "done"}]_vars
    /\ [][\A t \in TaskIds :
            (InProgress(t) /\ tasks'[t] # tasks[t]) =>
                \/ /\ tasks'[t].pc = "idle"
                   /\ returned'.pc = "done"
                   /\ returned'.batch_id = tasks[t].batch_id
                   /\ returned'.batch_size = tasks[t].batch_size
                \/ /\ tasks'[t].pc = "awaiting"
                   /\ tasks'[t].i = tasks[t].i + 1
                   /\ tasks'[t].i < tasks[t].batch_size
                   /\ tasks'[t].gate = tasks[t].gate
                   /\ tasks'[t].batch_size = tasks[t].batch_size
        ]_vars
    /\ \A t \in TaskIds : InProgress(t) ~> (tasks[t].pc = "idle")

\* C26 witness: a cycle of two items, the first of which failed, has
\* returned its result
C26_Witness ==
    /\ returned.pc = "done"
    /\ returned.batch_size = 2
    /\ returned.results = <<"failed", "success">>
    /\ returned.ret[1].status = "partial"

\* C27 (faithful status snapshot): at every instant get_stats reports
\* is_running = true with a current batch id iff some cycle is in
\* progress, and the reported id is the id of a cycle that is in progress;
\* once every cycle has returned, on every path, the marker is cleared.
C27_StatusFaithful ==
    LET st == StatsSnapshot
    IN  /\ st.is_running <=> CyclesInProgress # {}
        /\ st.is_running =>
              \E t \in CyclesInProgress : tasks[t].batch_id = st.current_batch
        /\ CyclesInProgress = {} => st.current_batch = None

\* C28 (frame of a non-executed cycle): a cycle that ends gate-Skipped,
\* veto-Skipped or as an orchestration failure appends nothing to the
\* History, leaves lastExecutionAt unchanged and never increments
\* hourlyCount or dailyCount; the only change it may make to the counter
\* state is the Gate's lazy reset of a count to 0 with its reset
\* timestamp set to now.
C28_SkippedFrame ==
    [][(CycleStarts /\ ReturnedEarly') =>
        /\ execution_history' = execution_history
        /\ last_execution' = last_execution
        /\ \/ /\ hourly_video_count' = hourly_video_count
              /\ last_hour_reset' = last_hour_reset
           \/ /\ hourly_video_count' = 0
              /\ last_hour_reset' = now
        /\ \/ /\ daily_video_count' = daily_video_count
              /\ last_day_reset' = last_day_reset
           \/ /\ daily_video_count' = 0
              /\ last_day_reset' = now
    ]_vars

\* C28 witness: a cycle was skipped for the daily limit an hour after
\* the cycle that reached it; its Gate reset the hourly count
C28_Witness ==
    /\ ReturnedEarly
    /\ returned.gate = "daily limit"
    /\ Len(execution_history) = 1
    /\ last_execution = Some(now - OneHour)
    /\ hourly_video_count = 0
    /\ last_hour_reset = now
    /\ daily_video_count = config.max_daily_videos
    /\ last_day_reset = now - OneHour

\* C29 (a forced count never bypasses the Gate): a manual trigger with any
\* forceCount issued while the daily or hourly limit is reached, during
\* cooldown, or inside quiet hours returns Skipped with no work-provider
\* call, exactly as an unforced cycle would.
C29_ForcedGated ==
    [][(CycleStarts /\ Started.force # NoForce) =>
        LET daily == daily_video_count' >= config.max_daily_videos
            hourly == hourly_video_count' >= config.max_hourly_videos
            cooldown == /\ last_execution # None
                        /\ now - last_execution[1] < config.api_cooldown_minutes
            quiet == InsideQuietHours(TimeOfDay(now), config.quiet_hours_start,
                                      config.quiet_hours_end)
        IN  (daily \/ hourly \/ cooldown \/ quiet) =>
                /\ returned'.pc = "done"
                /\ returned'.gate # "proceed"
                /\ returned'.calls = 0
                /\ returned'.ret[1] =
                      _create_skipped_result(Some(now), "Rate limit or quiet hours")
                /\ tasks' = tasks
    ]_vars

\* C29 witness: a manual trigger with a forced count was skipped for
\* cooldown, no call issued
C29_Witness ==
    /\ ReturnedEarly
    /\ returned.job = ManualId
    /\ returned.force = ForceInt(3)
    /\ returned.gate = "cooldown"
    /\ returned.calls = 0
    /\ returned.ret[1].status = "skipped"

\* C30 (no lost counter updates under interleaving): for any interleaving
\* of cycles at their await points, every executed cycle adds exactly its
\* own successfulCount to both dailyCount and hourlyCount and appends
\* exactly one History entry, so that between two resets the growth of
\* dailyCount is the sum of successfulCount of the results appended in
\* that period.  Step by step: a count changes only by a reset to 0 and
\* by the successes of the result appended in the step.
C30_NoLostUpdate ==
    [][ LET h == execution_history
            executed == returned'.pc = "done" /\ ~ReturnedEarly'
            added == IF executed THEN returned'.ret[1].successful_count ELSE 0
            daily0 == IF last_day_reset' # last_day_reset
                      THEN 0 ELSE daily_video_count
            hourly0 == IF last_hour_reset' # last_hour_reset
                       THEN 0 ELSE hourly_video_count
        IN  /\ daily_video_count' = daily0 + added
            /\ hourly_video_count' = hourly0 + added
            /\ executed =>
                  /\ execution_history' = Append(h, returned'.ret[1])
                  /\ returned'.ret[1].successful_count
                        = CountStatus(returned'.results, "success")
            /\ ~executed => execution_history' = h
            /\ (last_day_reset' # last_day_reset \/
                   last_hour_reset' # last_hour_reset) => CycleStarts
      ]_vars

\* C30 witness: two cycles that overlapped (they started at the same
\* instant and both executed) have both completed, with one and two
\* successes
C30_Witness ==
    /\ Len(execution_history) = 2
    /\ execution_history[1].batch_id = execution_history[2].batch_id
    /\ execution_history[1].successful_count = 1
    /\ execution_history[2].successful_count = 2
    /\ daily_video_count = 3
    /\ hourly_video_count = 3

\* C31 (degenerate quiet-hours window): when quietHoursStart equals
\* quietHoursEnd every time of day is treated as inside quiet hours, so
\* every cycle, scheduled or manual, is gate-Skipped and the work provider
\* is never invoked.
C31_DegenerateWindow ==
    config.quiet_hours_start = config.quiet_hours_end =>
        /\ _is_quiet_hours(TimeOfDay(now), config)
        /\ CyclesInProgress = {}
        /\ execution_history = <<>>
        /\ returned.pc # "idle" =>
              /\ returned.pc = "done"
              /\ returned.gate # "proceed"
              /\ returned.calls = 0
              /\ returned.ret[1] =
                    _create_skipped_result(returned.batch_id,
                                           "Rate limit or quiet hours")

\* C31 witness: under the window 10:00-10:00 a scheduled fire at 08:55
\* was skipped for quiet hours
C31_Witness ==
    /\ config.quiet_hours_start = 600
    /\ config.quiet_hours_end = 600
    /\ now = 535
    /\ returned.pc = "done"
    /\ returned.job \in jobs
    /\ returned.gate = "quiet hours"
    /\ returned.calls = 0
    /\ returned.ret[1].status = "skipped"

====
